---- MODULE Spec2Model ----
(***************************************************************************)
(* Model of the plugin manager of rust/lance/src/plugin.rs and of the      *)
(* reference plugin rust/lance/src/plugin/test_plugin.rs.                  *)
(*                                                                         *)
(* The manager owns a registry  name -> (Box<dyn PluginInstance>, Library).*)
(* Library handles and plugin instances are heap objects identified by     *)
(* their creation index.  Every effect of the manager on a foreign         *)
(* resource (opening or closing a library, calling an exported function,   *)
(* calling a method of an instance during load, reclaiming an instance) is *)
(* appended to `events` in the order the code performs it, including the   *)
(* drops that Rust inserts when a scope is left.                           *)
(***************************************************************************)
EXTENDS FiniteSets, Integers, Sequences, TLC

VARIABLES plugins, libraries, instances, events, status, op

vars == <<plugins, libraries, instances, events, status, op>>

(***************************************************************************)
(* Bounds                                                                  *)
(***************************************************************************)
\* Number of library handles the manager opens in one behaviour.
MaxLoads == 2

(***************************************************************************)
(* Program constants                                                       *)
(***************************************************************************)
CURRENT_API_VERSION == 1

\* PluginMetadata { name, version, description }
PluginMetadata(n, v, d) == [name |-> n, version |-> v, description |-> d]

NoMetadata == PluginMetadata("", "", "")

(***************************************************************************)
(* The native libraries on disk: the inputs of load_plugin.                *)
(*   opens        Library::new(path) succeeds                              *)
(*   entry        the library exports the function get_plugin_interface    *)
(*   static       the library exports a symbol named plugin_interface      *)
(*                (a PluginInterface holding the same function pointers)   *)
(*   api_version  PluginInterface.api_version of its descriptor            *)
(*   init_ok      PluginInstance::init returns Ok                          *)
(*   metadata     PluginInstance::metadata                                 *)
(*   prefix       PluginInstance::execute is format!("<prefix>{}", input)  *)
(* libtest_plugin.so is test_plugin.rs; the others vary one property each. *)
(***************************************************************************)
LibraryFile(o, e, s, a, i, m, p) ==
    [opens |-> o, entry |-> e, static |-> s, api_version |-> a,
     init_ok |-> i, metadata |-> m, prefix |-> p]

TestPlugin ==
    LibraryFile(TRUE, TRUE, FALSE, 1, TRUE,
                PluginMetadata("test_plugin", "1.0", "Test Plugin"),
                "Processed: ")

LibraryFiles ==
    [path \in {"non_existent_plugin.so", "libno_entry.so", "libold_api.so",
               "libbad_init.so", "libtest_plugin.so", "libstatic_plugin.so",
               "libtest_plugin_v2.so", "libwide_abi.so"} |->
       CASE path = "non_existent_plugin.so" ->
              LibraryFile(FALSE, FALSE, FALSE, 0, FALSE, NoMetadata, "")
         [] path = "libno_entry.so" ->
              LibraryFile(TRUE, FALSE, TRUE, 1, TRUE,
                          PluginMetadata("no_entry", "1.0", "No entry point"), "")
         [] path = "libold_api.so" ->
              LibraryFile(TRUE, TRUE, TRUE, 2, TRUE,
                          PluginMetadata("old_api", "0.9", "Old API"), "Old: ")
         [] path = "libbad_init.so" ->
              LibraryFile(TRUE, TRUE, TRUE, 1, FALSE,
                          PluginMetadata("bad_init", "1.0", "Init fails"), "Bad: ")
         [] path = "libtest_plugin.so" -> TestPlugin
         [] path = "libstatic_plugin.so" ->
              LibraryFile(TRUE, TRUE, TRUE, 1, TRUE,
                          PluginMetadata("static_plugin", "3.1", "Static Plugin"),
                          "Echo: ")
         [] path = "libtest_plugin_v2.so" ->
              LibraryFile(TRUE, TRUE, TRUE, 1, TRUE,
                          PluginMetadata("test_plugin", "2.0", "Test Plugin 2"),
                          "Handled: ")
         [] path = "libwide_abi.so" ->
              LibraryFile(TRUE, TRUE, TRUE, 1, TRUE,
                          PluginMetadata("wide_abi", "1.0", "Wider descriptor"),
                          "Wide: ")]

\* size_of::<PluginInterface>() on the host: two function pointers and a
\* u32, padded to the alignment of a pointer (64-bit target).
SizeOfPluginInterface == 24

\* The in-memory size of the descriptor a library really exports.
\* libwide_abi.so was built against a PluginInterface with one more trailing
\* field; its first three fields lie where the host expects them.
DescriptorSize(path) ==
    IF path = "libwide_abi.so" THEN 32 ELSE SizeOfPluginInterface

\* std::mem::size_of_val(&*interface) with interface: &'static PluginInterface:
\* the size of the static type of the reference, whatever the library exported.
SizeOfVal(path) == SizeOfPluginInterface

Paths == DOMAIN LibraryFiles

\* Names given to unload_plugin, execute_plugin and get_metadata.
Names == {"test_plugin", "static_plugin", "nonexistent_plugin"}

\* Inputs given to execute_plugin.
Inputs == {"", "test_input"}

(***************************************************************************)
(* Foreign calls and resource events                                       *)
(***************************************************************************)
Call(c, h, i) == [call |-> c, lib |-> h, inst |-> i]

\* Position of the first occurrence of e in s, 0 when absent.
IndexOf(s, e) ==
    IF \E k \in 1..Len(s) : s[k] = e
    THEN CHOOSE k \in 1..Len(s) : s[k] = e /\ \A j \in 1..(k-1) : s[j] # e
    ELSE 0

Occurs(s, e) == IndexOf(s, e) > 0

(***************************************************************************)
(* The heap objects                                                        *)
(*   libraries[h]  a libloading::Library: the file it maps and whether the *)
(*                 handle is still open (not yet dropped)                  *)
(*   instances[i]  an object returned by create_plugin: the handle of the  *)
(*                 library that made it and how it ended                   *)
(*                   "live"       not reclaimed                            *)
(*                   "destroyed"  handed to the library's destroy_plugin   *)
(*                   "dropped"    freed by the host (drop of the Box)      *)
(***************************************************************************)
Library(path) == [path |-> path, open |-> TRUE]

Instance(h) == [lib |-> h, state |-> "live"]

\* The library file behind an instance: its trait methods are that file's code.
FileOf(insts, libs, i) == LibraryFiles[libs[insts[i].lib].path]

\* The heap after the calls cs: libs and insts are the objects allocated so far.
Reclaimed(cs, i) ==
    IF Occurs(cs, Call("destroy_plugin", 0, i)) THEN "destroyed"
    ELSE IF Occurs(cs, Call("box_drop", 0, i)) THEN "dropped"
    ELSE "live"

LibrariesAfter(libs, cs) ==
    [h \in 1..Len(libs) |->
        IF Occurs(cs, Call("close", h, 0))
        THEN [libs[h] EXCEPT !.open = FALSE] ELSE libs[h]]

InstancesAfter(insts, cs) ==
    [i \in 1..Len(insts) |->
        IF Reclaimed(cs, i) # "live"
        THEN [insts[i] EXCEPT !.state = Reclaimed(cs, i)] ELSE insts[i]]

(***************************************************************************)
(* Registry: HashMap<String, (Box<dyn PluginInstance>, Library)>           *)
(***************************************************************************)
Entry(i, h) == [plugin |-> i, lib |-> h]

\* An insert that keeps an entry already present (entry(key).or_insert(value)).
Insert_KeepsExisting(reg, key, value) ==
    [n \in (DOMAIN reg) \cup {key} |-> IF n \in DOMAIN reg THEN reg[n] ELSE value]

\* An insert that updates only the instance of an entry already present.
Insert_KeepsOldLibrary(reg, key, value) ==
    [n \in (DOMAIN reg) \cup {key} |->
        IF n # key THEN reg[n]
        ELSE IF key \in DOMAIN reg THEN [value EXCEPT !.lib = reg[key].lib]
        ELSE value]

\* HashMap::insert: the map afterwards.
Insert(reg, key, value) ==
    [n \in (DOMAIN reg) \cup {key} |-> IF n = key THEN value ELSE reg[n]]

\* HashMap::insert returns the value it replaced; the caller discards it, so
\* the tuple is dropped on the spot, its fields in order: the Box, then the
\* Library.
DropValue(value) ==
    <<Call("box_drop", 0, value.plugin), Call("close", value.lib, 0)>>

\* A replaced entry that is forgotten instead of dropped (mem::forget).
Replaced_Forgets(reg, key) == <<>>

Replaced(reg, key) ==
    IF key \in DOMAIN reg THEN DropValue(reg[key]) ELSE <<>>

\* A remove that only reads the entry (HashMap::get in place of remove).
Remove_KeepsEntry(reg, name) == reg

\* HashMap::remove: the map afterwards.
Remove(reg, name) == [n \in (DOMAIN reg) \ {name} |-> reg[n]]

(***************************************************************************)
(* load_plugin, step by step.  h and i are the identities of the Library   *)
(* and of the instance this call would allocate.  The result names the     *)
(* PluginError variant (or "Ok"); calls lists the foreign calls and drops  *)
(* in program order; created / registered tell whether create_plugin ran   *)
(* and whether the insert was reached.  The assert_eq! on the descriptor's *)
(* size compares size_of::<PluginInterface>() with size_of_val of a        *)
(* &PluginInterface, the same compile-time number, so its panic branch is  *)
(* never taken.                                                            *)
(***************************************************************************)
Steps(r, cs, c, g) == [result |-> r, calls |-> cs, created |-> c, registered |-> g]

\* load_plugin with the insert moved before the call of init.
LoadSteps_InsertBeforeInit(path, h, i, reg) ==
    LET file == LibraryFiles[path]
        open == <<Call("open", h, 0)>>
        close == <<Call("close", h, 0)>>
        getif == <<Call("get_plugin_interface", h, 0)>>
        create == <<Call("create_plugin", h, i)>>
        init == <<Call("init", 0, i)>>
        meta == <<Call("metadata", 0, i)>>
    IN  IF ~file.opens
        THEN Steps("LibraryLoad", <<>>, FALSE, FALSE)
        ELSE IF ~file.entry
        THEN Steps("SymbolError", open \o close, FALSE, FALSE)
        ELSE IF SizeOfPluginInterface # SizeOfVal(path)
        THEN Steps("Panic", open \o getif \o close, FALSE, FALSE)
        ELSE IF file.api_version # CURRENT_API_VERSION
        THEN Steps("IncompatibleAPI", open \o getif \o close, FALSE, FALSE)
        ELSE IF ~file.init_ok
        THEN Steps("SymbolError",
                   open \o getif \o create \o meta
                        \o Replaced(reg, file.metadata.name) \o init,
                   TRUE, TRUE)
        ELSE Steps("Ok",
                   open \o getif \o create \o meta
                        \o Replaced(reg, file.metadata.name) \o init,
                   TRUE, TRUE)

\* load_plugin with the api_version comparison made after create_plugin.
LoadSteps_CreateBeforeVersionCheck(path, h, i, reg) ==
    LET file == LibraryFiles[path]
        open == <<Call("open", h, 0)>>
        close == <<Call("close", h, 0)>>
        getif == <<Call("get_plugin_interface", h, 0)>>
        create == <<Call("create_plugin", h, i)>>
        init == <<Call("init", 0, i)>>
        meta == <<Call("metadata", 0, i)>>
    IN  IF ~file.opens
        THEN Steps("LibraryLoad", <<>>, FALSE, FALSE)
        ELSE IF ~file.entry
        THEN Steps("SymbolError", open \o close, FALSE, FALSE)
        ELSE IF SizeOfPluginInterface # SizeOfVal(path)
        THEN Steps("Panic", open \o getif \o close, FALSE, FALSE)
        ELSE IF file.api_version # CURRENT_API_VERSION
        THEN Steps("IncompatibleAPI",
                   open \o getif \o create \o <<Call("box_drop", 0, i)>> \o close,
                   TRUE, FALSE)
        ELSE IF ~file.init_ok
        THEN Steps("SymbolError",
                   open \o getif \o create \o init
                        \o <<Call("box_drop", 0, i)>> \o close,
                   TRUE, FALSE)
        ELSE Steps("Ok",
                   open \o getif \o create \o init \o meta
                        \o Replaced(reg, file.metadata.name),
                   TRUE, TRUE)

\* load_plugin that keeps the raw pointer unboxed until init has succeeded:
\* nothing reclaims the instance when init fails.
LoadSteps_LeaksOnInitFailure(path, h, i, reg) ==
    LET file == LibraryFiles[path]
        open == <<Call("open", h, 0)>>
        close == <<Call("close", h, 0)>>
        getif == <<Call("get_plugin_interface", h, 0)>>
        create == <<Call("create_plugin", h, i)>>
        init == <<Call("init", 0, i)>>
        meta == <<Call("metadata", 0, i)>>
    IN  IF ~file.opens
        THEN Steps("LibraryLoad", <<>>, FALSE, FALSE)
        ELSE IF ~file.entry
        THEN Steps("SymbolError", open \o close, FALSE, FALSE)
        ELSE IF SizeOfPluginInterface # SizeOfVal(path)
        THEN Steps("Panic", open \o getif \o close, FALSE, FALSE)
        ELSE IF file.api_version # CURRENT_API_VERSION
        THEN Steps("IncompatibleAPI", open \o getif \o close, FALSE, FALSE)
        ELSE IF ~file.init_ok
        THEN Steps("SymbolError", open \o getif \o create \o init \o close,
                   TRUE, FALSE)
        ELSE Steps("Ok",
                   open \o getif \o create \o init \o meta
                        \o Replaced(reg, file.metadata.name),
                   TRUE, TRUE)

LoadSteps(path, h, i, reg) ==
    LET file == LibraryFiles[path]
        open == <<Call("open", h, 0)>>
        close == <<Call("close", h, 0)>>
        getif == <<Call("get_plugin_interface", h, 0)>>
        create == <<Call("create_plugin", h, i)>>
        init == <<Call("init", 0, i)>>
        meta == <<Call("metadata", 0, i)>>
    IN  IF ~file.opens
        THEN Steps("LibraryLoad", <<>>, FALSE, FALSE)
        ELSE IF ~file.entry
        THEN Steps("SymbolError", open \o close, FALSE, FALSE)
        ELSE IF SizeOfPluginInterface # SizeOfVal(path)
        THEN Steps("Panic", open \o getif \o close, FALSE, FALSE)
        ELSE IF file.api_version # CURRENT_API_VERSION
        THEN Steps("IncompatibleAPI", open \o getif \o close, FALSE, FALSE)
        ELSE IF ~file.init_ok
        \* `?` leaves the scope: locals are dropped in reverse order of
        \* declaration, the Box `plugin` before the Library `lib`.
        THEN Steps("SymbolError",
                   open \o getif \o create \o init
                        \o <<Call("box_drop", 0, i)>> \o close,
                   TRUE, FALSE)
        ELSE Steps("Ok",
                   open \o getif \o create \o init \o meta
                        \o Replaced(reg, file.metadata.name),
                   TRUE, TRUE)

(***************************************************************************)
(* The destructor lookup shared by unload_plugin and Drop:                 *)
(* lib.get(b"plugin_interface").  On success destroy_plugin takes the      *)
(* instance and the Library is dropped afterwards.  On failure nothing     *)
(* has consumed the Box: the bindings of the pattern (plugin, lib) are     *)
(* dropped in reverse order of declaration, lib first and plugin second.   *)
(***************************************************************************)
\* A destructor call on a pointer borrowed from the Box (as_mut instead of
\* Box::into_raw): the Box still owns the instance and is dropped afterwards.
Retire_DestroysBorrowed(value, file) ==
    IF file.static
    THEN <<Call("destroy_plugin", 0, value.plugin),
           Call("box_drop", 0, value.plugin), Call("close", value.lib, 0)>>
    ELSE <<Call("close", value.lib, 0), Call("box_drop", 0, value.plugin)>>

Retire(value, file) ==
    IF file.static
    THEN <<Call("destroy_plugin", 0, value.plugin), Call("close", value.lib, 0)>>
    ELSE <<Call("close", value.lib, 0), Call("box_drop", 0, value.plugin)>>

UnloadResult(file) == IF file.static THEN "Ok" ELSE "SymbolError"

\* A Box dropped after its library was closed runs drop glue through a
\* vtable of unmapped code: undefined behaviour, which either goes unnoticed
\* or kills the process.
UseAfterUnmap(cs, insts) ==
    \E k \in 1..Len(cs) :
        /\ cs[k].call = "box_drop"
        /\ \E j \in 1..(k-1) : cs[j] = Call("close", insts[cs[k].inst].lib, 0)

Outcomes(cs, insts) ==
    IF UseAfterUnmap(cs, insts) THEN {"returns", "abort"} ELSE {"returns"}

(***************************************************************************)
(* Trait methods of a registered instance, as its library implements them  *)
(***************************************************************************)
\* PluginInstance::execute: format!("<prefix>{}", input)
Execute(insts, libs, i, input) == FileOf(insts, libs, i).prefix \o input

\* PluginInstance::metadata
Metadata(insts, libs, i) == FileOf(insts, libs, i).metadata

(***************************************************************************)
(* The record of the last call: what was called with which arguments, what *)
(* it returned, which instance a query called into (0: none), and the      *)
(* length of `events` when the call began.                                 *)
(***************************************************************************)
Returned(k, a, x, r, v, m, c, n) ==
    [kind |-> k, arg |-> a, input |-> x, result |-> r, value |-> v,
     meta |-> m, callee |-> c, mark |-> n]

\* The foreign calls made by the last call.
CallsOfOp == SubSeq(events, op.mark + 1, Len(events))

\* PluginManager::new
Init ==
    /\ plugins = [n \in {} |-> Entry(0, 0)]
    /\ libraries = <<>>
    /\ instances = <<>>
    /\ events = <<>>
    /\ status = "ready"
    /\ op = Returned("new", "", "", "Ok", "", NoMetadata, 0, 0)

load_plugin(path) ==
    /\ status = "ready"
    /\ LibraryFiles[path].opens => Len(libraries) < MaxLoads
    /\ LET h == Len(libraries) + 1
           i == Len(instances) + 1
           s == LoadSteps(path, h, i, plugins)
           libs == IF LibraryFiles[path].opens
                   THEN Append(libraries, Library(path)) ELSE libraries
           insts == IF s.created
                    THEN Append(instances, Instance(h)) ELSE instances
       IN  /\ plugins' = IF s.registered
                         THEN Insert(plugins, Metadata(insts, libs, i).name,
                                     Entry(i, h))
                         ELSE plugins
           /\ libraries' = LibrariesAfter(libs, s.calls)
           /\ instances' = InstancesAfter(insts, s.calls)
           /\ events' = events \o s.calls
           /\ op' = Returned("load_plugin", path, "", s.result, "", NoMetadata,
                             0, Len(events))
    /\ UNCHANGED status

\* An unload_plugin that treats an unknown name as already unloaded.
unload_plugin_IgnoresMissing(name) ==
    /\ status = "ready"
    /\ IF name \notin DOMAIN plugins
       THEN /\ op' = Returned("unload_plugin", name, "", "Ok", "",
                              NoMetadata, 0, Len(events))
            /\ UNCHANGED <<plugins, libraries, instances, events, status>>
       ELSE LET value == plugins[name]
                file == LibraryFiles[libraries[value.lib].path]
                cs == Retire(value, file)
            IN  \E outcome \in Outcomes(cs, instances) :
                  /\ plugins' = Remove(plugins, name)
                  /\ libraries' = LibrariesAfter(libraries, cs)
                  /\ instances' = InstancesAfter(instances, cs)
                  /\ events' = events \o cs
                  /\ status' = IF outcome = "abort" THEN "aborted" ELSE status
                  /\ op' = Returned("unload_plugin", name, "",
                                    IF outcome = "abort" THEN "Abort"
                                    ELSE UnloadResult(file),
                                    "", NoMetadata, 0, Len(events))

\* An unload_plugin that looks the entry up, resolves the destructor, and
\* removes the entry only once the destructor is resolved.
unload_plugin_RemovesAfterResolve(name) ==
    /\ status = "ready"
    /\ IF name \notin DOMAIN plugins
       THEN /\ op' = Returned("unload_plugin", name, "", "NotFound", "",
                              NoMetadata, 0, Len(events))
            /\ UNCHANGED <<plugins, libraries, instances, events, status>>
       ELSE IF ~LibraryFiles[libraries[plugins[name].lib].path].static
       THEN /\ op' = Returned("unload_plugin", name, "", "SymbolError", "",
                              NoMetadata, 0, Len(events))
            /\ UNCHANGED <<plugins, libraries, instances, events, status>>
       ELSE LET value == plugins[name]
                file == LibraryFiles[libraries[value.lib].path]
                cs == Retire(value, file)
            IN  /\ plugins' = Remove(plugins, name)
                /\ libraries' = LibrariesAfter(libraries, cs)
                /\ instances' = InstancesAfter(instances, cs)
                /\ events' = events \o cs
                /\ op' = Returned("unload_plugin", name, "", UnloadResult(file),
                                  "", NoMetadata, 0, Len(events))
                /\ UNCHANGED status

unload_plugin(name) ==
    /\ status = "ready"
    /\ IF name \notin DOMAIN plugins
       THEN /\ op' = Returned("unload_plugin", name, "", "NotFound", "",
                              NoMetadata, 0, Len(events))
            /\ UNCHANGED <<plugins, libraries, instances, events, status>>
       ELSE LET value == plugins[name]
                file == LibraryFiles[libraries[value.lib].path]
                cs == Retire(value, file)
            IN  \E outcome \in Outcomes(cs, instances) :
                  /\ plugins' = Remove(plugins, name)
                  /\ libraries' = LibrariesAfter(libraries, cs)
                  /\ instances' = InstancesAfter(instances, cs)
                  /\ events' = events \o cs
                  /\ status' = IF outcome = "abort" THEN "aborted" ELSE status
                  /\ op' = Returned("unload_plugin", name, "",
                                    IF outcome = "abort" THEN "Abort"
                                    ELSE UnloadResult(file),
                                    "", NoMetadata, 0, Len(events))

\* An execute_plugin that forwards the plugin's name instead of the input.
ExecutePlugin_ForwardsName(reg, insts, libs, name, input) ==
    IF name \in DOMAIN reg
    THEN [result |-> "Ok", value |-> Execute(insts, libs, reg[name].plugin, name),
          callee |-> reg[name].plugin]
    ELSE [result |-> "Err", value |-> "Plugin " \o name \o " not found",
          callee |-> 0]

\* self.plugins.get(name).map(|(p, _)| p.execute(input))
\*     .ok_or_else(|| format!("Plugin {} not found", name))
ExecutePlugin(reg, insts, libs, name, input) ==
    IF name \in DOMAIN reg
    THEN [result |-> "Ok", value |-> Execute(insts, libs, reg[name].plugin, input),
          callee |-> reg[name].plugin]
    ELSE [result |-> "Err", value |-> "Plugin " \o name \o " not found",
          callee |-> 0]

\* self.plugins.get(name).map(|(p, _)| p.metadata())
GetMetadata(reg, insts, libs, name) ==
    IF name \in DOMAIN reg
    THEN [result |-> "Some", meta |-> Metadata(insts, libs, reg[name].plugin),
          callee |-> reg[name].plugin]
    ELSE [result |-> "None", meta |-> NoMetadata, callee |-> 0]

\* An execute_plugin that takes the entry out of the registry to call it.
execute_plugin_TakesEntry(name, input) ==
    /\ status = "ready"
    /\ LET r == ExecutePlugin(plugins, instances, libraries, name, input)
       IN  op' = Returned("execute_plugin", name, input, r.result, r.value,
                          NoMetadata, r.callee, Len(events))
    /\ plugins' = Remove(plugins, name)
    /\ UNCHANGED <<libraries, instances, events, status>>

execute_plugin(name, input) ==
    /\ status = "ready"
    /\ LET r == ExecutePlugin(plugins, instances, libraries, name, input)
       IN  op' = Returned("execute_plugin", name, input, r.result, r.value,
                          NoMetadata, r.callee, Len(events))
    /\ UNCHANGED <<plugins, libraries, instances, events, status>>

get_metadata(name) ==
    /\ status = "ready"
    /\ LET r == GetMetadata(plugins, instances, libraries, name)
       IN  op' = Returned("get_metadata", name, "", r.result, "", r.meta,
                          r.callee, Len(events))
    /\ UNCHANGED <<plugins, libraries, instances, events, status>>

(***************************************************************************)
(* impl Drop for PluginManager.  The registry is taken out of the manager  *)
(* and its entries are retired one by one in the HashMap's iteration       *)
(* order, which is arbitrary.  When the drop of an entry's Box runs into   *)
(* unmapped code and kills the process, the entries after it are never     *)
(* reached.                                                                *)
(***************************************************************************)
Orders(S) ==
    {o \in [1..Cardinality(S) -> S] :
        \A a, b \in 1..Cardinality(S) : a # b => o[a] # o[b]}

RECURSIVE DropCalls(_, _, _, _)
DropCalls(reg, libs, order, n) ==
    IF n = 0 THEN <<>>
    ELSE DropCalls(reg, libs, order, n - 1)
           \o Retire(reg[order[n]], LibraryFiles[libs[reg[order[n]].lib].path])

\* Where the teardown can end: after all entries (Len(order)), or at an
\* entry whose Box is dropped after its library was closed.
DropEnds(reg, libs, order) ==
    {Len(order)} \cup
    {n \in 1..Len(order) : ~LibraryFiles[libs[reg[order[n]].lib].path].static}

Drop ==
    /\ status = "ready"
    /\ \E order \in Orders(DOMAIN plugins) :
         \E n \in DropEnds(plugins, libraries, order) :
           \E outcome \in Outcomes(DropCalls(plugins, libraries, order, n),
                                   instances) :
             LET cs == DropCalls(plugins, libraries, order, n)
             IN  /\ (n < Len(order)) => outcome = "abort"
                 /\ plugins' = [x \in {} |-> Entry(0, 0)]
                 /\ libraries' = LibrariesAfter(libraries, cs)
                 /\ instances' = InstancesAfter(instances, cs)
                 /\ events' = events \o cs
                 /\ status' = IF outcome = "abort" THEN "aborted" ELSE "dropped"
                 /\ op' = Returned("drop", "", "",
                                   IF outcome = "abort" THEN "Abort" ELSE "Ok",
                                   "", NoMetadata, 0, Len(events))

Next ==
    \/ \E path \in Paths : load_plugin(path)
    \/ \E name \in Names : unload_plugin(name)
    \/ \E name \in Names, input \in Inputs : execute_plugin(name, input)
    \/ \E name \in Names : get_metadata(name)
    \/ Drop

Spec == Init /\ [][Next]_vars

(***************************************************************************)
(* Vocabulary of the properties                                            *)
(***************************************************************************)
Handles == 1..Len(libraries)

Objects == 1..Len(instances)

\* Position in `events` at which instance i was reclaimed (0: never), by the
\* library's destroy_plugin or by the host.
DestroyedAt(i) == IndexOf(events, Call("destroy_plugin", 0, i))

BoxDroppedAt(i) == IndexOf(events, Call("box_drop", 0, i))

RetiredAt(i) ==
    IF DestroyedAt(i) > 0 /\ (BoxDroppedAt(i) = 0 \/ DestroyedAt(i) < BoxDroppedAt(i))
    THEN DestroyedAt(i) ELSE BoxDroppedAt(i)

\* Position in `events` at which library handle h was released (0: never).
ClosedAt(h) == IndexOf(events, Call("close", h, 0))

\* load_plugin accepts a library file: every step up to the insert succeeds.
Accepted(path) ==
    /\ LibraryFiles[path].opens
    /\ LibraryFiles[path].entry
    /\ LibraryFiles[path].api_version = CURRENT_API_VERSION
    /\ LibraryFiles[path].init_ok

\* C1: a library handle is never released while an instance created from it
\* is live: every instance is reclaimed strictly before the close of its own
\* library handle.
C1_InstanceRetiredBeforeLibrary ==
    \A i \in Objects :
        ClosedAt(instances[i].lib) > 0 =>
            /\ RetiredAt(i) > 0
            /\ RetiredAt(i) < ClosedAt(instances[i].lib)

\* C2: an instance obtained from create_plugin is reclaimed only through its
\* library's destroy_plugin, never by a drop of the host's Box.
C2_OnlyDestroyPluginReclaims ==
    \A i \in Objects : BoxDroppedAt(i) = 0 /\ instances[i].state # "dropped"

\* C3: teardown retires every entry left in the registry: destroy_plugin is
\* called on its instance and afterwards its library handle is closed.
C3_TeardownDestroysEveryEntry ==
    [][op'.kind = "drop" =>
          \A n \in DOMAIN plugins :
              LET i == plugins[n].plugin
                  h == plugins[n].lib
                  d == IndexOf(events', Call("destroy_plugin", 0, i))
                  c == IndexOf(events', Call("close", h, 0))
              IN  Len(events) < d /\ d < c]_vars

\* The file given to the last call, when that call was a load_plugin.
LoadedFile == LibraryFiles[op.arg]

\* C4: load_plugin is all-or-nothing: a load that returns an error leaves
\* the registry the mapping it was, and an entry appears or changes only in
\* a load that returns Ok.
C4_LoadAllOrNothing ==
    [][/\ (op'.kind = "load_plugin" /\ op'.result # "Ok") => plugins' = plugins
       /\ (\E n \in DOMAIN plugins' :
              n \notin DOMAIN plugins \/ plugins'[n] # plugins[n])
            => (op'.kind = "load_plugin" /\ op'.result = "Ok")]_vars

\* A load failed at init, after create_plugin, with a plugin registered.
C4_Witness ==
    /\ op.kind = "load_plugin"
    /\ op.result = "SymbolError"
    /\ \E k \in 1..Len(CallsOfOp) : CallsOfOp[k].call = "init"
    /\ "test_plugin" \in DOMAIN plugins

\* C5: when init fails in load_plugin, the instance is handed to its
\* library's destroy_plugin before the error is returned, and the library
\* handle is closed after that.
C5_InitFailureDestroysInstance ==
    \A i \in Objects :
        (/\ op.kind = "load_plugin"
         /\ op.result # "Ok"
         /\ IndexOf(events, Call("init", 0, i)) > op.mark)
        => /\ DestroyedAt(i) > op.mark
           /\ DestroyedAt(i) < ClosedAt(instances[i].lib)

\* C6: a library whose descriptor reports an api_version other than
\* CURRENT_API_VERSION makes load_plugin fail with IncompatibleAPI; no
\* create_plugin, init, metadata or destroy_plugin of it is called, no
\* instance of it ever exists, and its handle is closed when the call
\* returns.
C6_IncompatibleApiNeverInstantiated ==
    /\ \A i \in Objects :
          LibraryFiles[libraries[instances[i].lib].path].api_version
              = CURRENT_API_VERSION
    /\ (/\ op.kind = "load_plugin"
        /\ LoadedFile.opens
        /\ LoadedFile.entry
        /\ LoadedFile.api_version # CURRENT_API_VERSION)
       => /\ op.result = "IncompatibleAPI"
          /\ \A k \in 1..Len(CallsOfOp) :
                CallsOfOp[k].call \in {"open", "get_plugin_interface", "close"}
          /\ libraries[Len(libraries)].path = op.arg
          /\ ~libraries[Len(libraries)].open
          /\ CallsOfOp[Len(CallsOfOp)] = Call("close", Len(libraries), 0)

\* A library of another api_version was refused while a plugin is registered.
C6_Witness ==
    /\ op.kind = "load_plugin"
    /\ op.arg = "libold_api.so"
    /\ op.result = "IncompatibleAPI"
    /\ DOMAIN plugins # {}

\* C7: unload_plugin of a registered name returns Ok, for every library
\* that load_plugin accepted.
C7_UnloadOfLoadedSucceeds ==
    [][(op'.kind = "unload_plugin" /\ op'.arg \in DOMAIN plugins)
          => op'.result = "Ok"]_vars

\* A plugin that was registered under "test_plugin" has been retired and the
\* manager is still in use.
WasRegistered(i) ==
    /\ IndexOf(events, Call("metadata", 0, i)) > 0
    /\ Metadata(instances, libraries, i).name = "test_plugin"
    /\ instances[i].state # "live"

\* C8: unload_plugin(p) leaves p unregistered; p becomes registered again
\* only by a load_plugin that returns Ok; and while p is unregistered
\* get_metadata(p) returns None and execute_plugin(p, x) returns Err.
C8_UnloadedNameIsUnknown ==
    [][\A p \in Names :
         /\ (op'.kind = "unload_plugin" /\ op'.arg = p)
              => p \notin DOMAIN plugins'
         /\ (p \notin DOMAIN plugins /\ p \in DOMAIN plugins')
              => (op'.kind = "load_plugin" /\ op'.result = "Ok")
         /\ (p \notin DOMAIN plugins /\ op'.kind = "get_metadata" /\ op'.arg = p)
              => op'.result = "None"
         /\ (p \notin DOMAIN plugins /\ op'.kind = "execute_plugin" /\ op'.arg = p)
              => op'.result = "Err"]_vars

\* get_metadata finds nothing under a name that was loaded and then unloaded.
C8_Witness ==
    /\ status = "ready"
    /\ op.kind = "get_metadata"
    /\ op.arg = "test_plugin"
    /\ op.result = "None"
    /\ \E i \in Objects : WasRegistered(i)

\* The names plugins report.
PluginNames == {LibraryFiles[f].metadata.name : f \in Paths}

\* The handle opened by the latest successful load_plugin of a plugin that
\* reports the name p (0: none).
LastLoaded(p) ==
    LET hs == {h \in Handles :
                  /\ Accepted(libraries[h].path)
                  /\ LibraryFiles[libraries[h].path].metadata.name = p}
    IN  IF hs = {} THEN 0 ELSE CHOOSE h \in hs : \A g \in hs : g <= h

\* C9: from a successful load_plugin of a plugin reporting metadata m until
\* that name is unloaded or loaded again, get_metadata(m.name) returns m.
C9_MetadataRetrievedUnchanged ==
    status = "ready" =>
      \A p \in PluginNames :
        LET h == LastLoaded(p)
        IN  (h > 0 /\ libraries[h].open) =>
              /\ GetMetadata(plugins, instances, libraries, p).result = "Some"
              /\ GetMetadata(plugins, instances, libraries, p).meta
                   = LibraryFiles[libraries[h].path].metadata
              /\ (op.kind = "get_metadata" /\ op.arg = p)
                   => (op.result = "Some"
                       /\ op.meta = LibraryFiles[libraries[h].path].metadata)

\* get_metadata returns the metadata of the plugin that replaced another one
\* under the same name.
C9_Witness ==
    /\ op.kind = "get_metadata"
    /\ op.result = "Some"
    /\ op.meta = PluginMetadata("test_plugin", "2.0", "Test Plugin 2")
    /\ Len(libraries) = 2
    /\ libraries[1].path = "libtest_plugin.so"

\* C10: for a registered name p, execute_plugin(p, x) returns Ok with the
\* output of the instance made by the latest load under p; for the reference
\* plugin that is "Processed: " followed by x.
C10_ExecuteReturnsPluginOutput ==
    /\ \A p \in DOMAIN plugins : \A x \in Inputs :
          LET h == LastLoaded(p)
              r == ExecutePlugin(plugins, instances, libraries, p, x)
          IN  /\ h > 0
              /\ plugins[p].lib = h
              /\ instances[plugins[p].plugin].lib = h
              /\ r.result = "Ok"
              /\ r.value = LibraryFiles[libraries[h].path].prefix \o x
              /\ libraries[h].path = "libtest_plugin.so"
                   => r.value = "Processed: " \o x
    /\ (op.kind = "execute_plugin" /\ op.arg \in DOMAIN plugins)
         => /\ op.result = "Ok"
            /\ op.value = LibraryFiles[libraries[LastLoaded(op.arg)].path].prefix
                             \o op.input

\* The reference plugin was executed on "test_input".
C10_Witness ==
    /\ op.kind = "execute_plugin"
    /\ op.result = "Ok"
    /\ op.input = "test_input"
    /\ op.value = "Processed: test_input"
    /\ libraries[plugins[op.arg].lib].path = "libtest_plugin.so"

\* C11: execute_plugin on a name without a registry entry fails with the
\* error kind NotFound, the kind unload_plugin reports for an unknown name,
\* and calls into no instance.
C11_ExecuteUnknownIsNotFound ==
    (op.kind = "execute_plugin" /\ op.arg \notin DOMAIN plugins)
        => (op.result = "NotFound" /\ op.callee = 0)

\* C12: unload_plugin on a name that is not registered returns NotFound and
\* changes nothing: the registry, the library handles and the instances are
\* as before and no foreign call or drop is made.
C12_UnloadUnknownChangesNothing ==
    [][(op'.kind = "unload_plugin" /\ op'.arg \notin DOMAIN plugins)
          => /\ op'.result = "NotFound"
             /\ plugins' = plugins
             /\ libraries' = libraries
             /\ instances' = instances
             /\ events' = events
             /\ status' = status]_vars

\* An unknown name was unloaded while another plugin is registered.
C12_Witness ==
    /\ op.kind = "unload_plugin"
    /\ op.arg = "nonexistent_plugin"
    /\ op.result = "NotFound"
    /\ "test_plugin" \in DOMAIN plugins
    /\ libraries[plugins["test_plugin"].lib].open
    /\ instances[plugins["test_plugin"].plugin].state = "live"

\* The name reported by the plugin that the last load_plugin registered.
LoadedName == LibraryFiles[op.arg].metadata.name

\* C13: a load_plugin that succeeds for a name already registered leaves
\* the set of registered names (and so their number) unchanged, and the one
\* entry under that name holds the instance created and the library handle
\* opened by this call; the other entries are untouched.
C13_ReplaceKeepsOneEntry ==
    [][(/\ op'.kind = "load_plugin"
        /\ op'.result = "Ok"
        /\ LibraryFiles[op'.arg].metadata.name \in DOMAIN plugins)
       => LET n == LibraryFiles[op'.arg].metadata.name
              h == Len(libraries) + 1
              i == Len(instances) + 1
          IN  /\ DOMAIN plugins' = DOMAIN plugins
              /\ Cardinality(DOMAIN plugins') = Cardinality(DOMAIN plugins)
              /\ Len(libraries') = h
              /\ Len(instances') = i
              /\ libraries'[h].path = op'.arg
              /\ instances'[i].lib = h
              /\ plugins'[n] = Entry(i, h)
              /\ \A m \in DOMAIN plugins \ {n} : plugins'[m] = plugins[m]]_vars

\* The reference plugin was replaced by another plugin of the same name.
C13_Witness ==
    /\ op.kind = "load_plugin"
    /\ op.result = "Ok"
    /\ op.arg = "libtest_plugin_v2.so"
    /\ Len(libraries) = 2
    /\ libraries[1].path = "libtest_plugin.so"
    /\ DOMAIN plugins = {"test_plugin"}
    /\ plugins["test_plugin"] = Entry(2, 2)

C15_ErrorKindNamesFailedStep ==
    op.kind = "load_plugin" =>
        /\ op.result = "LibraryLoad" => ~LoadedFile.opens
        /\ op.result = "SymbolError" => (LoadedFile.opens /\ ~LoadedFile.entry)
        /\ op.result = "IncompatibleAPI"
             => /\ LoadedFile.opens
                /\ LoadedFile.entry
                /\ LoadedFile.api_version # CURRENT_API_VERSION
        /\ (\E k \in 1..Len(CallsOfOp) : CallsOfOp[k].call = "init")
             => op.result # "SymbolError"

\* C16: a library whose descriptor differs in size from the host's
\* PluginInterface makes load_plugin fail closed: the call does not return
\* Ok, create_plugin is not called and nothing is registered.
C16_SizeMismatchFailsClosed ==
    (/\ op.kind = "load_plugin"
     /\ LoadedFile.opens
     /\ LoadedFile.entry
     /\ DescriptorSize(op.arg) # SizeOfPluginInterface)
    => /\ op.result # "Ok"
       /\ \A k \in 1..Len(CallsOfOp) :
             CallsOfOp[k].call \in {"open", "get_plugin_interface", "close"}
       /\ \A n \in DOMAIN plugins :
             DescriptorSize(libraries[plugins[n].lib].path) = SizeOfPluginInterface

\* The handles and instances held by registry entries.
RegisteredLibraries == {plugins[n].lib : n \in DOMAIN plugins}

RegisteredInstances == {plugins[n].plugin : n \in DOMAIN plugins}

\* C17: between operations the open library handles and the live instances
\* are exactly those of the registry entries, each in one entry only.
C17_RegistryOwnsEverything ==
    status # "aborted" =>
        /\ {h \in Handles : libraries[h].open} = RegisteredLibraries
        /\ {i \in Objects : instances[i].state = "live"} = RegisteredInstances
        /\ \A n, m \in DOMAIN plugins :
              n # m => /\ plugins[n].lib # plugins[m].lib
                       /\ plugins[n].plugin # plugins[m].plugin
        /\ \A n \in DOMAIN plugins :
              instances[plugins[n].plugin].lib = plugins[n].lib

\* One plugin is registered after another library was opened and given up
\* (a failed load, an unload or a replacement).
C17_Witness ==
    /\ status = "ready"
    /\ Cardinality(DOMAIN plugins) = 1
    /\ \E h \in Handles : ~libraries[h].open
    /\ \E i \in Objects : instances[i].state # "live"

\* C18: execute_plugin and get_metadata are read-only: whatever they
\* return, the registry, the library handles and the instances are as
\* before, and nothing is created, destroyed or released.
C18_QueriesAreReadOnly ==
    [][op'.kind \in {"execute_plugin", "get_metadata"}
          => /\ plugins' = plugins
             /\ libraries' = libraries
             /\ instances' = instances
             /\ events' = events
             /\ status' = status]_vars

\* A registered plugin was executed and is still registered, live and open.
C18_Witness ==
    /\ op.kind = "execute_plugin"
    /\ op.result = "Ok"
    /\ op.arg \in DOMAIN plugins
    /\ plugins[op.arg].plugin = op.callee
    /\ instances[op.callee].state = "live"
    /\ libraries[plugins[op.arg].lib].open

\* How often instance i was reclaimed, by destroy_plugin or by the host.
ReclaimCount(i) ==
    Cardinality({k \in 1..Len(events) :
                    \/ events[k] = Call("destroy_plugin", 0, i)
                    \/ events[k] = Call("box_drop", 0, i)})

\* C19: no instance is reclaimed more than once, counting calls of
\* destroy_plugin and drops by the host together.
C19_ReclaimedAtMostOnce ==
    \A i \in Objects : ReclaimCount(i) <= 1

\* The manager was dropped after one plugin had been destroyed by an unload
\* and while another one was registered.
C19_Witness ==
    /\ status = "dropped"
    /\ op.kind = "drop"
    /\ \E i, j \in Objects :
          /\ DestroyedAt(i) > 0
          /\ DestroyedAt(i) <= op.mark
          /\ RetiredAt(j) > op.mark

\* C20: unload_plugin of a registered name removes the entry whatever it
\* returns; when it returns SymbolError the name is unregistered, and an
\* unload_plugin of the same name right after it returns NotFound.
C20_UnloadRemovesBeforeResolving ==
    [][/\ (op'.kind = "unload_plugin" /\ op'.arg \in DOMAIN plugins)
            => op'.arg \notin DOMAIN plugins'
       /\ (op'.kind = "unload_plugin" /\ op'.result = "SymbolError")
            => (op'.arg \in DOMAIN plugins /\ op'.arg \notin DOMAIN plugins')
       /\ (/\ op.kind = "unload_plugin"
           /\ op.result = "SymbolError"
           /\ op'.kind = "unload_plugin"
           /\ op'.arg = op.arg)
            => op'.result = "NotFound"]_vars

\* The reference plugin was unloaded with SymbolError and a second unload of
\* its name found nothing.
C20_Witness ==
    /\ status = "ready"
    /\ op.kind = "unload_plugin"
    /\ op.arg = "test_plugin"
    /\ op.result = "NotFound"
    /\ op.mark = Len(events)
    /\ Len(events) >= 2
    /\ events[Len(events)].call = "box_drop"
    /\ events[Len(events) - 1].call = "close"
    /\ libraries[events[Len(events) - 1].lib].path = "libtest_plugin.so"

====
